---- MODULE Spec2Model ----
(***************************************************************************)
(* Offline-first encrypted synchronisation of health logs.                 *)
(*                                                                         *)
(* The model covers the local record store (DatabaseService, table         *)
(* health_logs), the remote store (the Supabase table health_logs) and the *)
(* sync engine (SyncService).  Every "await" of syncHealthLogs is a point  *)
(* where the JavaScript event loop may run other callbacks, so the call is *)
(* modelled as a process with one step per awaited call; the statements    *)
(* between two awaits run atomically.  Each DatabaseService method is one  *)
(* SQL statement and therefore one atomic step.                            *)
(***************************************************************************)
EXTENDS Integers, Sequences, FiniteSets, TLC

\* ---------------------------------------------------------------- bounds
MaxId == 2          \* rows ever inserted into the local table
MaxPayload == 2     \* distinct ciphertexts
MaxTime == 2        \* values of CURRENT_TIMESTAMP
MaxCloud == 2       \* rows the remote store accepts
NumCallers == 2     \* concurrent callers of syncHealthLogs
NumUsers == 1       \* local users
NumDevices == 1     \* calls of initialize()
MaxRetries == 4     \* largest maxRetries passed to retrySyncWithBackoff
MaxLogs == 40       \* rows of a user when getSyncStats is called
MaxRows == 3        \* rows ever inserted through HealthLogService
MaxDate == 3        \* the dates up to today that a health log may carry
NumKeys == 2        \* encryption keys the user ever has
NumOwners == 2      \* users of HealthLogService
MaxMounts == 2      \* times the sync button is mounted
MaxGenerated == 3   \* keys EncryptionService.generateKey ever returns

Callers == 1..NumCallers
Users == 1..NumUsers
Payloads == 1..MaxPayload

\* SQL NULL / JavaScript null; every id, timestamp and digest of the model is positive
NULL == 0

\* the Supabase user the session resolves to
SupabaseUsers == {1}

\* errors the transport reports for an insert (returned in {error})
TransportErrors == {"Network timeout"}

\* milliseconds of the first backoff delay
BackoffBaseMs == 1000

\* ---------------------------------------------------------------- state
VARIABLES
  health_logs,  \* local table health_logs: a set of HealthLogRecord
  nextId,       \* AUTOINCREMENT sequence of health_logs.id
  now,          \* CURRENT_TIMESTAMP
  remote,       \* remote table health_logs; src is the history of the
                \* local id the row was uploaded for
  isSyncing,    \* SyncService.isSyncing
  deviceId,     \* SyncService.deviceId
  sync,         \* per caller: position and locals of syncHealthLogs
  last,         \* the syncHealthLogs call the latest step settled, if any
  retry,        \* position and locals of retrySyncWithBackoff
  stats,        \* position and locals of getSyncStats
  key,          \* the encryption key of the user (HealthLogService.encryptionKey)
  svc,          \* the HealthLogService call the latest step settled, if any
  db,           \* the SQLite file health_logs.db and DatabaseService.db, its handle
  vault         \* the items of SecureStore and the KeyManager call that ended last

\* the engine and the two stores
syncVars == <<health_logs, nextId, now, remote, isSyncing, deviceId, sync, last>>

\* the callers built on top of them
appVars == <<retry, stats, key, svc, db, vault>>

\* the HealthLogService and the key it is bound to
serviceVars == <<key, svc>>

vars == <<syncVars, appVars>>

\* ------------------------------------------------------- DatabaseService
\* the file health_logs.db: the tables and indexes it holds, the rows of the
\* table migrations, and the history of how often the CREATE TABLE statements
\* of migration 1 took effect; open is DatabaseService.db # null
NoDatabaseCall == [op |-> "none", kind |-> "none", error |-> <<>>]

NewDatabase ==
  [open |-> FALSE, objects |-> {}, migrations |-> {}, ddl |-> 0, call |-> NoDatabaseCall]

\* the statements of applyMigration1 in their order; none has IF NOT EXISTS
Migration1Objects ==
  <<"users", "health_logs", "idx_health_logs_user_id", "idx_health_logs_created_at">>

\* execAsync of CREATE statement i and the ones after it: SQLite raises when
\* the name is taken, and the statements before it stay applied (the
\* migration opens no transaction)
RECURSIVE execCreate(_, _)
execCreate(file, i) ==
  IF i > Len(Migration1Objects) THEN [file |-> file, error |-> <<>>]
  ELSE IF Migration1Objects[i] \in file.objects
         THEN [file |-> file,
               error |-> <<"Error: table ", Migration1Objects[i], " already exists">>]
         ELSE execCreate([file EXCEPT !.objects = @ \cup {Migration1Objects[i]},
                                      !.ddl = IF Migration1Objects[i] = "health_logs"
                                                THEN @ + 1 ELSE @],
                         i + 1)

\* the CREATE statements, then INSERT INTO migrations (version) VALUES (1)
applyMigration1(file) ==
  LET created == execCreate(file, 1)
  IN IF created.error # <<>> THEN created
     ELSE [file |-> [created.file EXCEPT !.migrations = @ \cup {1}], error |-> <<>>]

\* SELECT MAX(version) as version FROM migrations, then result?.version || 0
currentVersion(file) ==
  IF file.migrations = {} THEN 0
  ELSE CHOOSE v \in file.migrations : \A w \in file.migrations : w <= v

\* CREATE TABLE IF NOT EXISTS migrations, then migration 1 when the recorded
\* version is below 1
runMigrations(file) ==
  LET ledger == [file EXCEPT !.objects = @ \cup {"migrations"}]
  IN IF currentVersion(ledger) < 1 THEN applyMigration1(ledger)
     ELSE [file |-> ledger, error |-> <<>>]

\* INSERT INTO health_logs (user_id, encrypted_data, updated_at)
insertHealthLog(tbl, id, userId, encryptedData, ts) ==
  tbl \cup {[id |-> id, user_id |-> userId, encrypted_data |-> encryptedData,
             created_at |-> ts, updated_at |-> ts,
             synced_at |-> NULL, cloud_id |-> NULL]}

\* faulty variant: the edit also resets the sync marker
updateHealthLog_ResetsMarker(tbl, id, encryptedData, ts) ==
  {IF r.id = id
     THEN [r EXCEPT !.encrypted_data = encryptedData, !.updated_at = ts,
                    !.synced_at = NULL, !.cloud_id = NULL]
     ELSE r : r \in tbl}

\* UPDATE health_logs SET encrypted_data = ?, updated_at = CURRENT_TIMESTAMP WHERE id = ?
updateHealthLog(tbl, id, encryptedData, ts) ==
  {IF r.id = id
     THEN [r EXCEPT !.encrypted_data = encryptedData, !.updated_at = ts]
     ELSE r : r \in tbl}

\* DELETE FROM health_logs WHERE id = ?
deleteHealthLog(tbl, id) == {r \in tbl : r.id # id}

\* faulty variant: the UPDATE sets synced_at only
markHealthLogAsSynced_NoCloudId(tbl, id, cloudId, ts) ==
  {IF r.id = id THEN [r EXCEPT !.synced_at = ts] ELSE r : r \in tbl}

\* faulty variant: the UPDATE has no WHERE clause
markHealthLogAsSynced_NoWhere(tbl, id, cloudId, ts) ==
  {[r EXCEPT !.synced_at = ts, !.cloud_id = cloudId] : r \in tbl}

\* UPDATE health_logs SET synced_at = CURRENT_TIMESTAMP, cloud_id = ? WHERE id = ?
markHealthLogAsSynced(tbl, id, cloudId, ts) ==
  {IF r.id = id
     THEN [r EXCEPT !.synced_at = ts, !.cloud_id = cloudId]
     ELSE r : r \in tbl}

\* faulty variant: ORDER BY created_at DESC
OrderedAsc_Desc(S) ==
  {s \in [1..Cardinality(S) -> S] :
     /\ \A i, j \in 1..Cardinality(S) : i # j => s[i] # s[j]
     /\ \A i, j \in 1..Cardinality(S) : i < j => s[i].created_at >= s[j].created_at}

\* the rows selected by WHERE user_id = ?
HealthLogsOf(tbl, userId) == {r \in tbl : r.user_id = userId}

\* the orders in which ORDER BY created_at ASC may return the rows of S
\* (rows with equal created_at come in an order SQL leaves open)
OrderedAsc(S) ==
  {s \in [1..Cardinality(S) -> S] :
     /\ \A i, j \in 1..Cardinality(S) : i # j => s[i] # s[j]
     /\ \A i, j \in 1..Cardinality(S) : i < j => s[i].created_at <= s[j].created_at}

\* faulty variant: the filter is inverted (synced_at IS NOT NULL)
getUnsyncedHealthLogs_Inverted(tbl, userId) ==
  OrderedAsc({r \in tbl : r.user_id = userId /\ r.synced_at # NULL})

\* faulty variant: the query does not filter on synced_at
getUnsyncedHealthLogs_NoFilter(tbl, userId) ==
  OrderedAsc({r \in tbl : r.user_id = userId})

\* SELECT * FROM health_logs WHERE user_id = ? AND synced_at IS NULL ORDER BY created_at ASC
getUnsyncedHealthLogs(tbl, userId) ==
  OrderedAsc({r \in tbl : r.user_id = userId /\ r.synced_at = NULL})

\* ----------------------------------------------------- EncryptionService
\* EncryptionService.encrypt: the ciphertext can be opened with the same key only
encrypt(data, k) ==
  IF k = NULL
    THEN [success |-> FALSE, encryptedData |-> <<>>,
          error |-> "Data and key are required for encryption"]
    ELSE [success |-> TRUE, encryptedData |-> [key |-> k, data |-> data], error |-> ""]

\* EncryptionService.decrypt
decrypt(encryptedData, k) ==
  IF k = NULL
    THEN [success |-> FALSE, decryptedData |-> <<>>,
          error |-> "Encrypted data and key are required for decryption"]
    ELSE IF encryptedData.key # k
      THEN [success |-> FALSE, decryptedData |-> <<>>,
            error |-> "Decryption failed: Invalid key or corrupted data"]
      ELSE [success |-> TRUE, decryptedData |-> encryptedData.data, error |-> ""]

\* ----------------------------------------------------------- SyncService
\* lower-cased fragments isRetryableError looks for, per message of the model
Fragments(msg) ==
  CASE msg = "Network timeout" -> {"network", "timeout"}
    [] msg = "No internet connection available" -> {"connection"}
    [] OTHER -> {}

RetryableFragments ==
  {"network", "timeout", "connection", "fetch",
   "500", "502", "503", "504", "rate limit", "429"}

\* an Error message is the sequence of its wrapped parts, outermost first
isRetryableError(error) ==
  \E i \in 1..Len(error) : Fragments(error[i]) \cap RetryableFragments # {}

IdleCall ==
  [pc |-> "idle", userId |-> 0, supabaseUser |-> NULL, unsyncedLogs |-> <<>>,
   idx |-> 0, cloudId |-> 0,
   since |-> 0,   \* history: the id the next INSERT would get when the call started
   result |-> [success |-> TRUE, syncedCount |-> 0, failedCount |-> 0, errors |-> <<>>],
   log |-> <<>>]

NoCall ==
  [caller |-> 0, kind |-> "none", error |-> <<>>, userId |-> 0,
   unsyncedLogs |-> <<>>, result |-> IdleCall.result, log |-> <<>>]

Ev(op, localId, cloudId, ok) ==
  [op |-> op, localId |-> localId, cloudId |-> cloudId, ok |-> ok]

Settled(c, s, kind, error, result) ==
  [caller |-> c, kind |-> kind, error |-> error, userId |-> s.userId,
   unsyncedLogs |-> s.unsyncedLogs, result |-> result, log |-> s.log]

\* throw before the try block: the flag is not touched (lines 95-101)
Reject(c, userId, msg) ==
  /\ last' = Settled(c, [IdleCall EXCEPT !.userId = userId], "error", <<msg>>, IdleCall.result)
  /\ UNCHANGED <<sync, isSyncing>>

\* faulty variant: no finally block, the flag is cleared on return only
Throw_NoFinally(c, s, error) ==
  /\ last' = Settled(c, s, "error", <<"Sync failed: ">> \o error, IdleCall.result)
  /\ sync' = [sync EXCEPT ![c] = IdleCall]
  /\ UNCHANGED isSyncing

\* throw inside the try block: catch wraps the message, finally clears the flag
Throw(c, s, error) ==
  /\ last' = Settled(c, s, "error", <<"Sync failed: ">> \o error, IdleCall.result)
  /\ sync' = [sync EXCEPT ![c] = IdleCall]
  /\ isSyncing' = FALSE

\* faulty variant: no finally block, the flag is cleared in catch only
Return_KeepsFlag(c, s, result) ==
  /\ last' = Settled(c, s, "result", <<>>, result)
  /\ sync' = [sync EXCEPT ![c] = IdleCall]
  /\ UNCHANGED isSyncing

\* return inside the try block: finally clears the flag
Return(c, s, result) ==
  /\ last' = Settled(c, s, "result", <<>>, result)
  /\ sync' = [sync EXCEPT ![c] = IdleCall]
  /\ isSyncing' = FALSE

\* faulty variant: success means "no failures"
OverallSuccess_NoFailures(result) == result.failedCount = 0

\* result.success = result.syncedCount > 0 || result.failedCount === 0
OverallSuccess(result) == result.syncedCount > 0 \/ result.failedCount = 0

\* faulty variant: the first failed record ends the loop
EndIteration_StopsOnFailure(c, s) ==
  IF s.idx < Len(s.unsyncedLogs) /\ s.result.failedCount = 0
    THEN /\ sync' = [sync EXCEPT ![c] = [s EXCEPT !.idx = @ + 1, !.pc = "upload"]]
         /\ last' = NoCall
         /\ UNCHANGED isSyncing
    ELSE Return(c, s, [s.result EXCEPT !.success = OverallSuccess(s.result)])

\* end of one iteration of the for loop: next record, or lines 153-156
EndIteration(c, s) ==
  IF s.idx < Len(s.unsyncedLogs)
    THEN /\ sync' = [sync EXCEPT ![c] = [s EXCEPT !.idx = @ + 1, !.pc = "upload"]]
         /\ last' = NoCall
         /\ UNCHANGED isSyncing
    ELSE Return(c, s, [s.result EXCEPT !.success = OverallSuccess(s.result)])

\* faulty variant: the failure is counted but not reported
RecordFailure_CountsOnly(s, error) ==
  [s EXCEPT !.result.failedCount = @ + 1]

\* the catch block of the loop, lines 143-150
RecordFailure(s, error) ==
  [s EXCEPT !.result.failedCount = @ + 1,
            !.result.errors = Append(@, [localId |-> s.unsyncedLogs[s.idx].id,
                                         error |-> error,
                                         retryable |-> isRetryableError(error)])]

\* initialize(): the digest of Date.now() and Math.random(), a value no earlier
\* call produced; digests are numbered in the order they are produced
Initialize ==
  /\ deviceId < NumDevices
  /\ deviceId' = deviceId + 1
  /\ last' = NoCall
  /\ UNCHANGED <<health_logs, nextId, now, remote, isSyncing, sync>>
  /\ UNCHANGED appVars

\* faulty variant: the isSyncing guard is missing
SyncCall_NoGuard(c, userId) ==
  /\ sync[c].pc = "idle"
  /\ \A d \in Callers : d < c => sync[d].pc # "idle"
  /\ IF deviceId = NULL
       THEN Reject(c, userId, "Sync service not initialized")
       ELSE /\ isSyncing' = TRUE
            /\ sync' = [sync EXCEPT ![c] =
                 [IdleCall EXCEPT !.pc = "checkConnectivity", !.userId = userId,
                                 !.since = nextId]]
            /\ last' = NoCall
  /\ UNCHANGED <<health_logs, nextId, now, remote, deviceId>>
  /\ UNCHANGED appVars

\* syncHealthLogs up to its first await
\* (calls in flight are numbered: a new call takes the lowest free number)
SyncCall(c, userId) ==
  /\ sync[c].pc = "idle"
  /\ \A d \in Callers : d < c => sync[d].pc # "idle"
  /\ IF isSyncing
       THEN Reject(c, userId, "Sync already in progress")
       ELSE IF deviceId = NULL
         THEN Reject(c, userId, "Sync service not initialized")
         ELSE /\ isSyncing' = TRUE
              /\ sync' = [sync EXCEPT ![c] =
                   [IdleCall EXCEPT !.pc = "checkConnectivity", !.userId = userId,
                                 !.since = nextId]]
              /\ last' = NoCall
  /\ UNCHANGED <<health_logs, nextId, now, remote, deviceId>>
  /\ UNCHANGED appVars

\* faulty variant: the result of the probe is ignored
CheckConnectivity_IgnoresOffline(c) ==
  /\ sync[c].pc = "checkConnectivity"
  /\ \E isOnline \in BOOLEAN :
       /\ sync' = [sync EXCEPT ![c] =
            [sync[c] EXCEPT !.pc = "getSupabaseUser",
                            !.log = Append(@, Ev("probe", 0, 0, isOnline))]]
       /\ last' = NoCall
       /\ UNCHANGED isSyncing
  /\ UNCHANGED <<health_logs, nextId, now, remote, deviceId>>
  /\ UNCHANGED appVars

\* await this.checkConnectivity()
CheckConnectivity(c) ==
  /\ sync[c].pc = "checkConnectivity"
  /\ \E isOnline \in BOOLEAN :
       LET s == [sync[c] EXCEPT !.log = Append(@, Ev("probe", 0, 0, isOnline))] IN
       IF ~isOnline
         THEN Throw(c, s, <<"No internet connection available">>)
         ELSE /\ sync' = [sync EXCEPT ![c] = [s EXCEPT !.pc = "getSupabaseUser"]]
              /\ last' = NoCall
         /\ UNCHANGED isSyncing
  /\ UNCHANGED <<health_logs, nextId, now, remote, deviceId>>
  /\ UNCHANGED appVars

\* await this.getSupabaseUser()
GetSupabaseUser(c) ==
  /\ sync[c].pc = "getSupabaseUser"
  /\ \E user \in SupabaseUsers \cup {NULL} :
       LET s == [sync[c] EXCEPT !.log = Append(@, Ev("getUser", 0, 0, user # NULL))] IN
       IF user = NULL
         THEN Throw(c, s, <<"User not authenticated with Supabase">>)
         ELSE /\ sync' = [sync EXCEPT ![c] =
                   [s EXCEPT !.pc = "getUnsynced", !.supabaseUser = user]]
              /\ last' = NoCall
         /\ UNCHANGED isSyncing
  /\ UNCHANGED <<health_logs, nextId, now, remote, deviceId>>
  /\ UNCHANGED appVars

\* faulty variant: an empty snapshot is reported as a failed sync
GetUnsynced_EmptyIsFailure(c) ==
  /\ sync[c].pc = "getUnsynced"
  /\ \E ok \in BOOLEAN :
       LET s == [sync[c] EXCEPT !.log = Append(@, Ev("getUnsynced", 0, 0, ok))] IN
       IF ~ok
         THEN Throw(c, s, <<"Failed to get unsynced health logs: ", "Database connection failed">>)
         ELSE \E logs \in getUnsyncedHealthLogs(health_logs, s.userId) :
                IF Len(logs) = 0
                  THEN Return(c, s, [IdleCall.result EXCEPT !.success = FALSE])
                  ELSE /\ sync' = [sync EXCEPT ![c] =
                            [s EXCEPT !.pc = "upload", !.unsyncedLogs = logs, !.idx = 1]]
                       /\ last' = NoCall
         /\ UNCHANGED isSyncing
  /\ UNCHANGED <<health_logs, nextId, now, remote, deviceId>>
  /\ UNCHANGED appVars

\* await this.databaseService.getUnsyncedHealthLogs(userId), lines 119-135
GetUnsynced(c) ==
  /\ sync[c].pc = "getUnsynced"
  /\ \E ok \in BOOLEAN :
       LET s == [sync[c] EXCEPT !.log = Append(@, Ev("getUnsynced", 0, 0, ok))] IN
       IF ~ok
         THEN Throw(c, s, <<"Failed to get unsynced health logs: ", "Database connection failed">>)
         ELSE \E logs \in getUnsyncedHealthLogs(health_logs, s.userId) :
                IF Len(logs) = 0
                  THEN Return(c, s, IdleCall.result)
                  ELSE /\ sync' = [sync EXCEPT ![c] =
                            [s EXCEPT !.pc = "upload", !.unsyncedLogs = logs, !.idx = 1]]
                       /\ last' = NoCall
         /\ UNCHANGED isSyncing
  /\ UNCHANGED <<health_logs, nextId, now, remote, deviceId>>
  /\ UNCHANGED appVars

\* faulty variant: the engine opens the payload with the user's current key
\* and sends what it finds, sealed again under that key
UploadRequest_Reencrypts(log, supabaseUserId) ==
  [user_id |-> supabaseUserId,
   encrypted_data |->
     encrypt(decrypt(log.encrypted_data, key).decryptedData, key).encryptedData,
   device_id |-> deviceId]

\* the object uploadHealthLog passes to insert()
UploadRequest(log, supabaseUserId) ==
  [user_id |-> supabaseUserId,
   encrypted_data |-> log.encrypted_data,
   device_id |-> deviceId]

\* await this.uploadHealthLog(log, supabaseUser.id)
Upload(c) ==
  /\ sync[c].pc = "upload"
  /\ LET s == sync[c]
         log == s.unsyncedLogs[s.idx] IN
     \/ \* the insert succeeds and returns the id of the new row
        /\ Cardinality(remote) < MaxCloud
        /\ LET id == Cardinality(remote) + 1
               request == UploadRequest(log, s.supabaseUser) IN
           /\ remote' = remote \cup
                {[id |-> id, user_id |-> request.user_id,
                  encrypted_data |-> request.encrypted_data,
                  device_id |-> request.device_id, src |-> log.id]}
           /\ sync' = [sync EXCEPT ![c] =
                [s EXCEPT !.pc = "mark", !.cloudId = id,
                          !.log = Append(@, Ev("insert", log.id, id, TRUE))]]
           /\ last' = NoCall
         /\ UNCHANGED isSyncing
     \/ \* the insert returns {error}, or no id, or the request rejects
        /\ \E error \in {<<"Failed to upload health log: ", "Supabase insert error: ", e>> :
                           e \in TransportErrors}
                   \cup {<<"Failed to upload health log: ", "No ID returned from Supabase insert">>} :
             EndIteration(c, RecordFailure(
               [s EXCEPT !.log = Append(@, Ev("insert", log.id, 0, FALSE))], error))
        /\ UNCHANGED remote
  /\ UNCHANGED <<health_logs, nextId, now, deviceId>>
  /\ UNCHANGED appVars

\* await this.databaseService.markHealthLogAsSynced(log.id, cloudId)
Mark(c) ==
  /\ sync[c].pc = "mark"
  /\ LET s == sync[c]
         log == s.unsyncedLogs[s.idx] IN
     \E ok \in BOOLEAN :
       LET t == [s EXCEPT !.log = Append(@, Ev("mark", log.id, s.cloudId, ok)), !.cloudId = 0] IN
       IF ok
         THEN /\ health_logs' = markHealthLogAsSynced(health_logs, log.id, s.cloudId, now)
              /\ EndIteration(c, [t EXCEPT !.result.syncedCount = @ + 1])
         ELSE /\ UNCHANGED health_logs
              /\ EndIteration(c, RecordFailure(t,
                   <<"Failed to mark health log as synced: ", "database is locked">>))
  /\ UNCHANGED <<nextId, now, remote, deviceId>>
  /\ UNCHANGED appVars

\* ------------------------------------------------- callers of the store
CreateHealthLog(userId, encryptedData) ==
  /\ nextId <= MaxId
  /\ health_logs' = insertHealthLog(health_logs, nextId, userId, encryptedData, now)
  /\ nextId' = nextId + 1
  /\ last' = NoCall
  /\ UNCHANGED <<now, remote, isSyncing, deviceId, sync>>
  /\ UNCHANGED appVars

UpdateHealthLog(id, encryptedData) ==
  /\ health_logs' = updateHealthLog(health_logs, id, encryptedData, now)
  /\ last' = NoCall
  /\ UNCHANGED <<nextId, now, remote, isSyncing, deviceId, sync>>
  /\ UNCHANGED appVars

DeleteHealthLog(id) ==
  /\ health_logs' = deleteHealthLog(health_logs, id)
  /\ last' = NoCall
  /\ UNCHANGED <<nextId, now, remote, isSyncing, deviceId, sync>>
  /\ UNCHANGED appVars

Tick ==
  /\ now < MaxTime
  /\ now' = now + 1
  /\ last' = NoCall
  /\ UNCHANGED <<health_logs, nextId, remote, isSyncing, deviceId, sync>>
  /\ UNCHANGED appVars

\* ------------------------------------------------------------ SyncButton
\* useEffect(() => { initializeSyncService(); }, []): every mount of the button
\* awaits syncService.initialize() on the shared instance, which assigns a new
\* digest to deviceId whether or not one is set
Mount ==
  /\ deviceId < MaxMounts
  /\ deviceId' = deviceId + 1
  /\ last' = NoCall
  /\ UNCHANGED <<health_logs, nextId, now, remote, isSyncing, sync>>
  /\ UNCHANGED appVars

\* ------------------------------------------------- retrySyncWithBackoff
IdleRetry ==
  [pc |-> "idle", userId |-> 0, maxRetries |-> 0, attempt |-> 0, lastError |-> <<>>,
   kind |-> "none", error |-> <<>>, result |-> IdleCall.result,
   raised |-> 0,     \* history: attempts that raised so far
   waits |-> <<>>,   \* history: the delays passed to setTimeout, in order
   final |-> NoCall] \* history: the syncHealthLogs call settled last

\* faulty variant: the delay grows linearly
BackoffDelay_Linear(attempt) == attempt * BackoffBaseMs

\* const delay = Math.pow(2, attempt - 1) * 1000
BackoffDelay(attempt) == 2^(attempt - 1) * BackoffBaseMs

\* faulty variant: the error of the first failed attempt is kept
Caught_KeepsFirstError(r, settled) ==
  LET c == [r EXCEPT !.lastError = IF @ = <<>> THEN settled.error ELSE @,
                     !.raised = @ + 1, !.final = settled] IN
  IF r.attempt < r.maxRetries
    THEN [c EXCEPT !.pc = "wait", !.waits = Append(@, BackoffDelay(r.attempt))]
    ELSE [c EXCEPT !.pc = "done", !.kind = "error", !.error = c.lastError]

\* the catch block, and after the last attempt the throw that follows the loop
Caught(r, settled) ==
  LET c == [r EXCEPT !.lastError = settled.error, !.raised = @ + 1, !.final = settled] IN
  IF r.attempt < r.maxRetries
    THEN [c EXCEPT !.pc = "wait", !.waits = Append(@, BackoffDelay(r.attempt))]
    ELSE [c EXCEPT !.pc = "done", !.kind = "error", !.error = c.lastError]

\* retrySyncWithBackoff(userId, maxRetries) is called; with maxRetries < 1
\* the loop is skipped and 'Max retries exceeded' is thrown
RetrySyncWithBackoff(userId, maxRetries) ==
  /\ retry.pc \in {"idle", "done"}
  /\ retry' = IF maxRetries >= 1
                THEN [IdleRetry EXCEPT !.pc = "attempt", !.userId = userId,
                                       !.maxRetries = maxRetries, !.attempt = 1]
                ELSE [IdleRetry EXCEPT !.pc = "done", !.userId = userId,
                                       !.kind = "error", !.error = <<"Max retries exceeded">>]
  /\ UNCHANGED <<syncVars, stats, serviceVars, db, vault>>

\* return await this.syncHealthLogs(userId): the call of this attempt
RetryAttempt ==
  /\ retry.pc = "attempt"
  /\ last.kind = "none"
  /\ \A c \in Callers : sync[c].pc = "idle"
  /\ \E c \in Callers : SyncCall(c, retry.userId)

\* the awaited call has settled: return its result, or catch its error
RetrySettle ==
  /\ retry.pc = "attempt"
  /\ last.kind # "none"
  /\ retry' = IF last.kind = "result"
                THEN [retry EXCEPT !.pc = "done", !.kind = "result",
                                   !.result = last.result, !.final = last]
                ELSE Caught(retry, last)
  /\ last' = NoCall
  /\ UNCHANGED <<health_logs, nextId, now, remote, isSyncing, deviceId, sync, stats, serviceVars, db, vault>>

\* the timer of the backoff delay fires: next iteration of the for loop
RetryWake ==
  /\ retry.pc = "wait"
  /\ retry' = [retry EXCEPT !.pc = "attempt", !.attempt = @ + 1]
  /\ UNCHANGED <<syncVars, stats, serviceVars, db, vault>>

\* ---------------------------------------------------------- getSyncStats
\* A JavaScript Number is an IEEE 754 binary64 value.  A positive one is kept
\* as [m, e]: m the 53 bits of its significand, most significant first
\* (m[1] = 1), e the exponent of the last bit; its value is Value(m) * 2^e.
Precision == 53

\* the integer a sequence of at most 31 bits stands for
RECURSIVE BitsValue(_)
BitsValue(b) ==
  IF Len(b) = 0 THEN 0
  ELSE IF Len(b) = 1 THEN b[1]
  ELSE LET h == Len(b) \div 2 IN
       BitsValue(SubSeq(b, 1, h)) * 2^(Len(b) - h) + BitsValue(SubSeq(b, h + 1, Len(b)))

\* the n low bits of v, most significant first
Bits(v, n) == [i \in 1..n |-> (v \div 2^(n - i)) % 2]

\* the bits of v >= 1 without leading zeros
ToBits(v) == Bits(v, CHOOSE n \in 1..31 : 2^(n - 1) <= v /\ (n = 31 \/ v < 2^n))

\* the significand one unit in the last place up
RoundUp(m, e) ==
  IF \A i \in 1..Len(m) : m[i] = 1
    THEN [m |-> [i \in 1..Len(m) |-> IF i = 1 THEN 1 ELSE 0], e |-> e + 1]
    ELSE LET k == CHOOSE k \in 1..Len(m) :
                    m[k] = 0 /\ \A j \in (k + 1)..Len(m) : m[j] = 1 IN
         [m |-> [i \in 1..Len(m) |-> IF i < k THEN m[i] ELSE IF i = k THEN 1 ELSE 0],
          e |-> e]

\* the least z with s * 2^z >= t
LeadShift(s, t) == CHOOSE z \in 0..12 : s * 2^z >= t /\ (z = 0 \/ s * 2^(z - 1) < t)

\* the greatest y with t * 2^y <= s, for s >= t
TrailShift(s, t) == CHOOSE y \in 0..12 : t * 2^y <= s /\ s < t * 2^(y + 1)

\* s / t for integers 0 < s, t < 2^12, rounded to nearest, ties to even: the
\* operands are scaled to 1 <= n / d < 2, then the leading 1 and 52 bits of
\* long division follow, 18 + 17 + 17 at a time
fdiv(s, t) ==
  LET z == IF s < t THEN LeadShift(s, t) ELSE 0
      y == IF s < t THEN 0 ELSE TrailShift(s, t)
      d == t * 2^y
      r0 == s * 2^z - d
      q1 == (r0 * 2^18) \div d
      r1 == (r0 * 2^18) % d
      q2 == (r1 * 2^17) \div d
      r2 == (r1 * 2^17) % d
      q3 == (r2 * 2^17) \div d
      r3 == (r2 * 2^17) % d
      m == <<1>> \o Bits(q1, 18) \o Bits(q2, 17) \o Bits(q3, 17)
      e == y - z - (Precision - 1)
  IN IF 2 * r3 > d \/ (2 * r3 = d /\ m[Precision] = 1)
       THEN RoundUp(m, e)
       ELSE [m |-> m, e |-> e]

\* the bits of Value(m) * k for 1 <= k < 2^12, without leading zeros: the
\* significand is multiplied 17, 18 and 18 bits at a time, lowest first
MulBits(m, k) ==
  LET lo == BitsValue(SubSeq(m, 37, 53)) * k
      mid == BitsValue(SubSeq(m, 19, 36)) * k + lo \div 2^17
      hi == BitsValue(SubSeq(m, 1, 18)) * k + mid \div 2^18
  IN ToBits(hi) \o Bits(mid % 2^18, 18) \o Bits(lo % 2^17, 17)

\* x * k for an integer 1 <= k < 2^12, rounded to nearest, ties to even
fmul(x, k) ==
  LET p == MulBits(x.m, k)
      extra == Len(p) - Precision
      m == SubSeq(p, 1, Precision)
      e == x.e + extra
  IN IF extra = 0
       THEN [m |-> m, e |-> e]
       ELSE LET half == p[Precision + 1] = 1
                sticky == \E i \in (Precision + 2)..Len(p) : p[i] = 1 IN
            IF half /\ (sticky \/ m[Precision] = 1)
              THEN RoundUp(m, e)
              ELSE [m |-> m, e |-> e]

\* Math.round(x) for 0 < x < 2^31: the nearest integer, a tie going up
MathRound(x) ==
  LET n == Precision + x.e IN   \* bits in front of the binary point
  IF n < 0
    THEN 0
    ELSE BitsValue(SubSeq(x.m, 1, n)) + (IF n < Precision THEN x.m[n + 1] ELSE 0)

\* Math.round(-x) for 0 < x < 2^31: the nearest integer, a tie going up
\* (towards zero), so the magnitude grows only past the half
MathRoundNegated(x) ==
  LET n == Precision + x.e IN
  IF n < 0
    THEN 0
    ELSE 0 - (BitsValue(SubSeq(x.m, 1, n))
              + (IF n < Precision /\ x.m[n + 1] = 1
                    /\ \E i \in (n + 2)..Precision : x.m[i] = 1
                   THEN 1 ELSE 0))

\* Math.round(totalLogs > 0 ? (syncedCount / totalLogs) * 100 : 100)
\* (0 / totalLogs and 0 * 100 are exactly 0; -s / t is -(s / t), bit for bit)
SyncPercentage(syncedCount, totalLogs) ==
  IF totalLogs > 0
    THEN IF syncedCount = 0 THEN 0
         ELSE IF syncedCount > 0
           THEN MathRound(fmul(fdiv(syncedCount, totalLogs), 100))
           ELSE MathRoundNegated(fmul(fdiv(0 - syncedCount, totalLogs), 100))
    ELSE 100

IdleStats ==
  [pc |-> "idle", userId |-> 0, totalLogs |-> 0, kind |-> "none", error |-> <<>>,
   result |-> [totalLogs |-> 0, syncedLogs |-> 0, unsyncedLogs |-> 0, syncPercentage |-> 0]]

\* getSyncStats(userId) is called
GetSyncStats(userId) ==
  /\ stats.pc \in {"idle", "done"}
  /\ stats' = [IdleStats EXCEPT !.pc = "readAll", !.userId = userId]
  /\ UNCHANGED <<syncVars, retry, serviceVars, db, vault>>

\* const allLogs = await this.databaseService.getHealthLogsByUserId(userId)
StatsReadAll ==
  /\ stats.pc = "readAll"
  /\ \E ok \in BOOLEAN :
       stats' = IF ok
                  THEN [stats EXCEPT !.pc = "readUnsynced",
                          !.totalLogs = Cardinality(HealthLogsOf(health_logs, stats.userId))]
                  ELSE [stats EXCEPT !.pc = "done", !.kind = "error",
                          !.error = <<"Failed to get health logs: ", "Database connection failed">>]
  /\ UNCHANGED <<syncVars, retry, serviceVars, db, vault>>

\* const unsyncedLogs = await this.databaseService.getUnsyncedHealthLogs(userId),
\* and the rest of getSyncStats
StatsReadUnsynced ==
  /\ stats.pc = "readUnsynced"
  /\ \E ok \in BOOLEAN :
       stats' =
         IF ok
           THEN LET totalLogs == stats.totalLogs
                    unsyncedCount == Cardinality({r \in HealthLogsOf(health_logs, stats.userId) :
                                                    r.synced_at = NULL})
                    syncedCount == totalLogs - unsyncedCount IN
                [stats EXCEPT !.pc = "done", !.kind = "result",
                   !.result = [totalLogs |-> totalLogs, syncedLogs |-> syncedCount,
                               unsyncedLogs |-> unsyncedCount,
                               syncPercentage |-> SyncPercentage(syncedCount, totalLogs)]]
           ELSE [stats EXCEPT !.pc = "done", !.kind = "error",
                   !.error = <<"Failed to get unsynced health logs: ", "Database connection failed">>]
  /\ UNCHANGED <<syncVars, retry, serviceVars, db, vault>>

\* ------------------------------------------------------ HealthLogService
\* titles a caller may pass, and String.prototype.trim on them
Titles == {"", " ", "Flu", " Flu "}

Trim(t) == CASE t = " " -> "" [] t = " Flu " -> "Flu" [] OTHER -> t

\* date strings a caller may pass: 0 is a string new Date() cannot parse,
\* 1..MaxDate are the days up to today, MaxDate + 1 is tomorrow
Dates == 0..(MaxDate + 1)

Drafts == [title : Titles, date : Dates]

sanitizeHealthLogData(data) == [data EXCEPT !.title = Trim(@)]

\* the messages of validation.errors, in the order they are pushed
validateHealthLogData(data) ==
  (IF data.title = "" THEN <<"Title is required and must be a string">>
   ELSE IF Trim(data.title) = "" THEN <<"Title cannot be empty">>
   ELSE <<>>)
  \o
  (IF data.date = 0 THEN <<"Date must be a valid ISO date string">>
   ELSE IF data.date > MaxDate THEN <<"Date cannot be in the future">>
   ELSE <<>>)

\* JSON.stringify and JSON.parse
ToJson(value) == <<"json", value>>

ParseJson(text) == text[2]

\* the orders in which ORDER BY created_at DESC may return the rows of S
OrderedDesc(S) ==
  {s \in [1..Cardinality(S) -> S] :
     /\ \A i, j \in 1..Cardinality(S) : i # j => s[i] # s[j]
     /\ \A i, j \in 1..Cardinality(S) : i < j => s[i].created_at >= s[j].created_at}

\* SELECT * FROM health_logs WHERE user_id = ? ORDER BY created_at DESC
getHealthLogsByUserId(tbl, userId) == OrderedDesc(HealthLogsOf(tbl, userId))

RECURSIVE DecryptAll_StopsAtFailure(_, _)
RECURSIVE DecryptAll(_, _)

\* faulty variant: the first row that fails to decrypt ends the loop
DecryptAll_StopsAtFailure(encryptedLogs, k) ==
  IF encryptedLogs = <<>>
    THEN <<>>
    ELSE LET decryptionResult == decrypt(Head(encryptedLogs).encrypted_data, k) IN
         IF decryptionResult.success
           THEN <<ParseJson(decryptionResult.decryptedData)>>
                  \o DecryptAll_StopsAtFailure(Tail(encryptedLogs), k)
           ELSE <<>>

\* the for loop of getAllHealthLogs: a row that fails to decrypt is skipped
DecryptAll(encryptedLogs, k) ==
  IF encryptedLogs = <<>>
    THEN <<>>
    ELSE LET decryptionResult == decrypt(Head(encryptedLogs).encrypted_data, k) IN
         (IF decryptionResult.success
            THEN <<ParseJson(decryptionResult.decryptedData)>>
            ELSE <<>>)
         \o DecryptAll(Tail(encryptedLogs), k)

\* healthLogs.sort((a, b) => new Date(b.date).getTime() - new Date(a.date).getTime()):
\* the arrangements of healthLogs the comparator accepts
SortedByDate(healthLogs) ==
  LET n == Len(healthLogs) IN
  {[i \in 1..n |-> healthLogs[p[i]]] :
     p \in {q \in [1..n -> 1..n] :
              /\ \A i, j \in 1..n : i # j => q[i] # q[j]
              /\ \A i, j \in 1..n : i < j => healthLogs[q[i]].date >= healthLogs[q[j]].date}}

NoServiceCall ==
  [op |-> "none", kind |-> "none", userId |-> 0, healthLogId |-> 0,
   data |-> [title |-> "", date |-> 0],
   key |-> NULL, error |-> <<>>, encryptedLogs |-> <<>>, value |-> <<>>]

\* faulty variant: the row is stored before the draft is validated
ServiceCreateHealthLog_InsertsFirst(userId, data) ==
  LET sanitizedData == sanitizeHealthLogData(data)
      validation == validateHealthLogData(sanitizedData)
      healthLog == [id |-> <<"health_log", nextId>>,
                    title |-> sanitizedData.title, date |-> sanitizedData.date]
      call == [NoServiceCall EXCEPT !.op = "create", !.userId = userId,
                                    !.data = data, !.key = key]
  IN
  /\ nextId <= MaxRows
  /\ health_logs' = insertHealthLog(health_logs, nextId, userId,
                                     [key |-> key, data |-> ToJson(healthLog)], now)
  /\ nextId' = nextId + 1
  /\ svc' = IF validation # <<>>
              THEN [call EXCEPT !.kind = "error",
                                !.error = <<"Validation failed: ">> \o validation]
              ELSE [call EXCEPT !.kind = "result", !.value = <<healthLog>>]
  /\ last' = NoCall
  /\ UNCHANGED <<now, remote, isSyncing, deviceId, sync, retry, stats, key, db, vault>>

\* HealthLogService.createHealthLog(userId, data)
ServiceCreateHealthLog(userId, data) ==
  LET sanitizedData == sanitizeHealthLogData(data)
      validation == validateHealthLogData(sanitizedData)
      healthLog == [id |-> <<"health_log", nextId>>,
                    title |-> sanitizedData.title, date |-> sanitizedData.date]
      encryptionResult == encrypt(ToJson(healthLog), key)
      call == [NoServiceCall EXCEPT !.op = "create", !.userId = userId,
                                    !.data = data, !.key = key]
  IN
  /\ nextId <= MaxRows
  /\ IF validation # <<>>
       THEN /\ svc' = [call EXCEPT !.kind = "error",
                                   !.error = <<"Validation failed: ">> \o validation]
            /\ UNCHANGED <<health_logs, nextId>>
       ELSE IF ~encryptionResult.success
         THEN /\ svc' = [call EXCEPT !.kind = "error",
                           !.error = <<"Failed to create health log: ", encryptionResult.error>>]
              /\ UNCHANGED <<health_logs, nextId>>
         ELSE \E ok \in BOOLEAN :   \* the INSERT succeeds or raises
                IF ok
                  THEN /\ health_logs' = insertHealthLog(health_logs, nextId, userId,
                                            encryptionResult.encryptedData, now)
                       /\ nextId' = nextId + 1
                       /\ svc' = [call EXCEPT !.kind = "result", !.value = <<healthLog>>]
                  ELSE /\ svc' = [call EXCEPT !.kind = "error",
                                    !.error = <<"Failed to create health log: ",
                                                "Failed to create health log: ",
                                                "database is locked">>]
                       /\ UNCHANGED <<health_logs, nextId>>
  /\ last' = NoCall
  /\ UNCHANGED <<now, remote, isSyncing, deviceId, sync, retry, stats, key, db, vault>>

\* HealthLogService.getAllHealthLogs(userId)
ServiceGetAllHealthLogs(userId) ==
  /\ \E ok \in BOOLEAN :   \* the SELECT succeeds or raises
       LET call == [NoServiceCall EXCEPT !.op = "getAll", !.userId = userId, !.key = key] IN
       IF ok
         THEN \E encryptedLogs \in getHealthLogsByUserId(health_logs, userId) :
              \E sorted \in SortedByDate(DecryptAll(encryptedLogs, key)) :
                svc' = [call EXCEPT !.kind = "result", !.encryptedLogs = encryptedLogs,
                                    !.value = sorted]
         ELSE svc' = [call EXCEPT !.kind = "error",
                        !.error = <<"Failed to retrieve health logs: ",
                                    "Failed to get health logs: ", "database is locked">>]
  /\ last' = NoCall
  /\ UNCHANGED <<health_logs, nextId, now, remote, isSyncing, deviceId, sync,
                 retry, stats, key, db, vault>>

\* the id field of an update: absent, the empty string, blanks, or the domain
\* id createHealthLog gave to some record
PatchIds ==
  {<<"undefined", 0>>, <<"", 0>>, <<" ", 0>>} \cup {<<"health_log", n>> : n \in 1..MaxRows}

\* the updates a caller may pass (UpdateHealthLogData with title and date set)
Patches == [id : PatchIds, title : {"Flu", " "}, date : {1, MaxDate}]

\* !data.id || typeof data.id !== 'string' || data.id.trim().length === 0
IdMissing(id) == id[1] # "health_log"

\* HealthLogService.getHealthLog(healthLogId) once getHealthLogById has returned
getHealthLog(tbl, healthLogId, k) ==
  LET rows == {r \in tbl : r.id = healthLogId} IN
  IF rows = {}
    THEN [kind |-> "null", value |-> <<>>, error |-> <<>>]
    ELSE LET encryptedLog == CHOOSE r \in rows : TRUE
             decryptionResult == decrypt(encryptedLog.encrypted_data, k) IN
         IF ~decryptionResult.success
           THEN [kind |-> "error", value |-> <<>>,
                 error |-> <<"Failed to retrieve health log: ", decryptionResult.error>>]
           ELSE [kind |-> "value", value |-> <<ParseJson(decryptionResult.decryptedData)>>,
                 error |-> <<>>]

\* what getHealthLog raises when the SELECT raises
GetHealthLogFailed ==
  <<"Failed to retrieve health log: ", "Failed to get health log: ", "database is locked">>

\* HealthLogService.updateHealthLog(healthLogId, data); no other call of the
\* service runs between its two awaits
ServiceUpdateHealthLog(healthLogId, data) ==
  LET call == [NoServiceCall EXCEPT !.op = "update", !.healthLogId = healthLogId,
                                    !.data = data, !.key = key]
      existing == getHealthLog(health_logs, healthLogId, key)
  IN
  /\ IF IdMissing(data.id)
       THEN /\ svc' = [call EXCEPT !.kind = "error",
                         !.error = <<"Validation failed: ID is required for updates and must be a string">>]
            /\ UNCHANGED health_logs
       ELSE \E selected, updated \in BOOLEAN :   \* the SELECT / the UPDATE succeeds or raises
         IF ~selected
           THEN /\ svc' = [call EXCEPT !.kind = "error",
                             !.error = <<"Failed to update health log: ">> \o GetHealthLogFailed]
                /\ UNCHANGED health_logs
         ELSE IF existing.kind = "error"
           THEN /\ svc' = [call EXCEPT !.kind = "error",
                             !.error = <<"Failed to update health log: ">> \o existing.error]
                /\ UNCHANGED health_logs
         ELSE IF existing.kind = "null"
           THEN /\ svc' = [call EXCEPT !.kind = "error",
                             !.error = <<"Failed to update health log: ", "Health log not found">>]
                /\ UNCHANGED health_logs
         ELSE
           LET existingLog == existing.value[1]
               updatedLog == [id |-> existingLog.id, title |-> data.title, date |-> data.date]
               sanitizedLog == [updatedLog EXCEPT !.title = Trim(@)]
               completeValidation == validateHealthLogData(sanitizedLog)
               encryptionResult == encrypt(ToJson(sanitizedLog), key)
           IN
           IF completeValidation # <<>>
             THEN /\ svc' = [call EXCEPT !.kind = "error",
                               !.error = <<"Failed to update health log: ", "Validation failed: ">>
                                         \o completeValidation]
                  /\ UNCHANGED health_logs
           ELSE IF ~encryptionResult.success
             THEN /\ svc' = [call EXCEPT !.kind = "error",
                               !.error = <<"Failed to update health log: ", encryptionResult.error>>]
                  /\ UNCHANGED health_logs
           ELSE IF ~updated
             THEN /\ svc' = [call EXCEPT !.kind = "error",
                               !.error = <<"Failed to update health log: ",
                                           "Failed to update health log: ", "database is locked">>]
                  /\ UNCHANGED health_logs
           ELSE /\ health_logs' = updateHealthLog(health_logs, healthLogId,
                                                  encryptionResult.encryptedData, now)
                /\ svc' = [call EXCEPT !.kind = "result", !.value = <<sanitizedLog>>]
  /\ last' = NoCall
  /\ UNCHANGED <<nextId, now, remote, isSyncing, deviceId, sync, retry, stats, key, db, vault>>

\* HealthLogService.deleteHealthLog(healthLogId); no other call of the service
\* runs between its two awaits
ServiceDeleteHealthLog(healthLogId) ==
  LET call == [NoServiceCall EXCEPT !.op = "delete", !.healthLogId = healthLogId,
                                    !.key = key]
      existing == getHealthLog(health_logs, healthLogId, key)
  IN
  /\ \E selected, deleted \in BOOLEAN :   \* the SELECT / the DELETE succeeds or raises
       IF ~selected
         THEN /\ svc' = [call EXCEPT !.kind = "error",
                           !.error = <<"Failed to delete health log: ">> \o GetHealthLogFailed]
              /\ UNCHANGED health_logs
       ELSE IF existing.kind = "error"
         THEN /\ svc' = [call EXCEPT !.kind = "error",
                           !.error = <<"Failed to delete health log: ">> \o existing.error]
              /\ UNCHANGED health_logs
       ELSE IF existing.kind = "null"
         THEN /\ svc' = [call EXCEPT !.kind = "error",
                           !.error = <<"Failed to delete health log: ", "Health log not found">>]
              /\ UNCHANGED health_logs
       ELSE IF ~deleted
         THEN /\ svc' = [call EXCEPT !.kind = "error",
                           !.error = <<"Failed to delete health log: ",
                                       "Failed to delete health log: ", "database is locked">>]
              /\ UNCHANGED health_logs
       ELSE /\ health_logs' = deleteHealthLog(health_logs, healthLogId)
            /\ svc' = [call EXCEPT !.kind = "result"]
  /\ last' = NoCall
  /\ UNCHANGED <<nextId, now, remote, isSyncing, deviceId, sync, retry, stats, key, db, vault>>

\* KeyManager.generateAndStoreUserKey / rotateUserKey: the user gets a key no
\* earlier call produced; keys are numbered in the order they are produced
StoreNewUserKey ==
  /\ key < NumKeys
  /\ key' = key + 1
  /\ last' = NoCall
  /\ UNCHANGED <<health_logs, nextId, now, remote, isSyncing, deviceId, sync,
                 retry, stats, svc, db, vault>>

\* ------------------------------------------------------------ KeyManager
\* a userId is an owner or the empty string, written 0
UserIds == 0..NumOwners

\* the result of a KeyManager call; an absent field is NULL or ""
KeyResult(success, k, error) ==
  [success |-> success, key |-> k, oldKey |-> NULL, newKey |-> NULL, error |-> error]

NoVaultCall ==
  [op |-> "none", userId |-> 0, was |-> [o \in 1..NumOwners |-> NULL],
   read |-> TRUE, stored |-> TRUE, result |-> KeyResult(FALSE, NULL, "")]

\* items: the value SecureStore holds under user_encryption_key_<owner>, NULL
\* when there is none; generated: the keys generateKey has returned so far
EmptyVault ==
  [items |-> [o \in 1..NumOwners |-> NULL], generated |-> 0, call |-> NoVaultCall]

\* generateAndStoreUserKey with the key generateKey returned; stored tells
\* whether setItemAsync resolved, and a rejected write leaves the item alone
generateAndStoreUserKey(items, userId, encryptionKey, stored) ==
  IF userId = 0
    THEN [items |-> items,
          result |-> KeyResult(FALSE, NULL, "User ID is required for key generation")]
  ELSE IF ~stored
    THEN [items |-> items,
          result |-> KeyResult(FALSE, NULL, "Failed to generate and store user key: Storage error")]
  ELSE [items |-> [items EXCEPT ![userId] = encryptionKey],
        result |-> KeyResult(TRUE, encryptionKey, "")]

\* getUserKey; read tells whether getItemAsync resolved
getUserKey(items, userId, read) ==
  IF userId = 0 THEN KeyResult(FALSE, NULL, "User ID is required to retrieve key")
  ELSE IF ~read THEN KeyResult(FALSE, NULL, "Failed to retrieve user key: Storage error")
  ELSE IF items[userId] = NULL THEN KeyResult(FALSE, NULL, "No encryption key found for user")
  ELSE KeyResult(TRUE, items[userId], "")

\* removeUserKey; deleted is the number of its deleteItemAsync calls that
\* resolved: the first removes the key, the second the salt
removeUserKey(items, userId, deleted) ==
  IF userId = 0
    THEN [items |-> items, result |-> KeyResult(FALSE, NULL, "User ID is required to remove key")]
  ELSE IF deleted = 0
    THEN [items |-> items,
          result |-> KeyResult(FALSE, NULL, "Failed to remove user key: Storage error")]
  ELSE [items |-> [items EXCEPT ![userId] = NULL],
        result |-> IF deleted = 1
                     THEN KeyResult(FALSE, NULL, "Failed to remove user key: Storage error")
                     ELSE KeyResult(TRUE, NULL, "")]

rotateUserKey(items, userId, encryptionKey, read, stored) ==
  IF userId = 0
    THEN [items |-> items,
          result |-> KeyResult(FALSE, NULL, "User ID is required for key rotation")]
  ELSE LET currentKeyResult == getUserKey(items, userId, read)
       IN IF ~currentKeyResult.success
            THEN [items |-> items,
                  result |-> KeyResult(FALSE, NULL, "Cannot rotate key: No existing key found")]
            ELSE LET newKeyResult == generateAndStoreUserKey(items, userId, encryptionKey, stored)
                 IN IF ~newKeyResult.result.success
                      THEN [items |-> newKeyResult.items,
                            result |-> KeyResult(FALSE, NULL,
                                                 "Failed to generate new key during rotation")]
                      ELSE [items |-> newKeyResult.items,
                            result |-> [KeyResult(TRUE, NULL, "")
                                          EXCEPT !.oldKey = currentKeyResult.key,
                                                 !.newKey = newKeyResult.result.key]]

\* one call of KeyManager, awaited by its caller
VaultCall(op, userId, read, stored, done, generated) ==
  /\ vault' = [items |-> done.items, generated |-> generated,
               call |-> [op |-> op, userId |-> userId, was |-> vault.items,
                         read |-> read, stored |-> stored, result |-> done.result]]
  /\ UNCHANGED <<syncVars, retry, stats, key, svc, db>>

GenerateAndStoreUserKey(userId) ==
  /\ vault.generated < MaxGenerated
  /\ \E stored \in BOOLEAN :
       VaultCall("generateAndStoreUserKey", userId, TRUE, stored,
                 generateAndStoreUserKey(vault.items, userId, vault.generated + 1, stored),
                 IF userId = 0 THEN vault.generated ELSE vault.generated + 1)

GetUserKey(userId) ==
  /\ userId \in UserIds
  /\ \E read \in BOOLEAN :
       VaultCall("getUserKey", userId, read, TRUE,
                 [items |-> vault.items, result |-> getUserKey(vault.items, userId, read)],
                 vault.generated)

RemoveUserKey(userId) ==
  /\ userId \in UserIds
  /\ \E deleted \in 0..2 :
       VaultCall("removeUserKey", userId, TRUE, deleted = 2,
                 removeUserKey(vault.items, userId, deleted), vault.generated)

\* generateKey runs only when the current key was read
RotateUserKey(userId) ==
  /\ vault.generated < MaxGenerated
  /\ \E read \in BOOLEAN, stored \in BOOLEAN :
       VaultCall("rotateUserKey", userId, read, stored,
                 rotateUserKey(vault.items, userId, vault.generated + 1, read, stored),
                 IF userId # 0 /\ getUserKey(vault.items, userId, read).success
                   THEN vault.generated + 1 ELSE vault.generated)

Init ==
  /\ health_logs = {}
  /\ nextId = 1
  /\ now = 1
  /\ remote = {}
  /\ isSyncing = FALSE
  /\ deviceId = NULL
  /\ sync = [c \in Callers |-> IdleCall]
  /\ last = NoCall
  /\ retry = IdleRetry
  /\ stats = IdleStats
  /\ key = 1
  /\ svc = NoServiceCall
  /\ db = runMigrations([NewDatabase EXCEPT !.open = TRUE]).file
  /\ vault = EmptyVault

Next ==
  \/ Initialize
  \/ \E c \in Callers, u \in Users : SyncCall(c, u)
  \/ \E c \in Callers : CheckConnectivity(c)
  \/ \E c \in Callers : GetSupabaseUser(c)
  \/ \E c \in Callers : GetUnsynced(c)
  \/ \E c \in Callers : Upload(c)
  \/ \E c \in Callers : Mark(c)
  \/ \E u \in Users, p \in Payloads : CreateHealthLog(u, p)
  \/ \E id \in 1..MaxId, p \in Payloads : UpdateHealthLog(id, p)
  \/ \E id \in 1..MaxId : DeleteHealthLog(id)
  \/ Tick

Spec == Init /\ [][Next]_vars

\* retrySyncWithBackoff over an engine that is initialized or not and a store
\* that holds up to MaxId unsynced records of user 1
InitRetry ==
  /\ \E k \in 0..MaxId :
       /\ health_logs = {[id |-> i, user_id |-> 1, encrypted_data |-> 1,
                          created_at |-> 1, updated_at |-> 1,
                          synced_at |-> NULL, cloud_id |-> NULL] : i \in 1..k}
       /\ nextId = k + 1
  /\ now = 1
  /\ remote = {}
  /\ isSyncing = FALSE
  /\ deviceId \in {NULL, 1}
  /\ sync = [c \in Callers |-> IdleCall]
  /\ last = NoCall
  /\ retry = IdleRetry
  /\ stats = IdleStats
  /\ key = 1
  /\ svc = NoServiceCall
  /\ db = runMigrations([NewDatabase EXCEPT !.open = TRUE]).file
  /\ vault = EmptyVault

NextRetry ==
  \/ \E u \in Users, n \in 0..MaxRetries : RetrySyncWithBackoff(u, n)
  \/ RetryAttempt
  \/ \E c \in Callers : CheckConnectivity(c)
  \/ \E c \in Callers : GetSupabaseUser(c)
  \/ \E c \in Callers : GetUnsynced(c)
  \/ \E c \in Callers : Upload(c)
  \/ \E c \in Callers : Mark(c)
  \/ RetrySettle
  \/ RetryWake

SpecRetry == InitRetry /\ [][NextRetry]_vars

\* getSyncStats over a store that holds up to MaxLogs rows of user 1, some of
\* them synced
InitStats ==
  /\ \E total \in 0..MaxLogs : \E unsynced \in 0..total :
       /\ health_logs = {[id |-> i, user_id |-> 1, encrypted_data |-> 1,
                          created_at |-> 1, updated_at |-> 1,
                          synced_at |-> IF i <= unsynced THEN NULL ELSE 1,
                          cloud_id |-> IF i <= unsynced THEN NULL ELSE i] : i \in 1..total}
       /\ nextId = total + 1
  /\ now = 1
  /\ remote = {}
  /\ isSyncing = FALSE
  /\ deviceId = 1
  /\ sync = [c \in Callers |-> IdleCall]
  /\ last = NoCall
  /\ retry = IdleRetry
  /\ stats = IdleStats
  /\ key = 1
  /\ svc = NoServiceCall
  /\ db = runMigrations([NewDatabase EXCEPT !.open = TRUE]).file
  /\ vault = EmptyVault

NextStats ==
  \/ \E u \in Users : GetSyncStats(u)
  \/ StatsReadAll
  \/ StatsReadUnsynced

SpecStats == InitStats /\ [][NextStats]_vars

\* HealthLogService over an empty store, before the user has a key
InitService ==
  /\ health_logs = {}
  /\ nextId = 1
  /\ now = 1
  /\ remote = {}
  /\ isSyncing = FALSE
  /\ deviceId = NULL
  /\ sync = [c \in Callers |-> IdleCall]
  /\ last = NoCall
  /\ retry = IdleRetry
  /\ stats = IdleStats
  /\ key = NULL
  /\ svc = NoServiceCall
  /\ db = runMigrations([NewDatabase EXCEPT !.open = TRUE]).file
  /\ vault = EmptyVault

NextService ==
  \/ \E u \in 1..NumOwners, data \in Drafts : ServiceCreateHealthLog(u, data)
  \/ \E u \in 1..NumOwners : ServiceGetAllHealthLogs(u)
  \/ StoreNewUserKey
  \/ Tick

SpecService == InitService /\ [][NextService]_vars

\* the sync button mounted up to MaxMounts times over a store that holds up to
\* MaxId unsynced records of user 1
InitMount ==
  /\ \E k \in 0..MaxId :
       /\ health_logs = {[id |-> i, user_id |-> 1, encrypted_data |-> 1,
                          created_at |-> 1, updated_at |-> 1,
                          synced_at |-> NULL, cloud_id |-> NULL] : i \in 1..k}
       /\ nextId = k + 1
  /\ now = 1
  /\ remote = {}
  /\ isSyncing = FALSE
  /\ deviceId = NULL
  /\ sync = [c \in Callers |-> IdleCall]
  /\ last = NoCall
  /\ retry = IdleRetry
  /\ stats = IdleStats
  /\ key = 1
  /\ svc = NoServiceCall
  /\ db = runMigrations([NewDatabase EXCEPT !.open = TRUE]).file
  /\ vault = EmptyVault

NextMount ==
  \/ Mount
  \/ \E c \in Callers, u \in Users : SyncCall(c, u)
  \/ \E c \in Callers : CheckConnectivity(c)
  \/ \E c \in Callers : GetSupabaseUser(c)
  \/ \E c \in Callers : GetUnsynced(c)
  \/ \E c \in Callers : Upload(c)
  \/ \E c \in Callers : Mark(c)

SpecMount == InitMount /\ [][NextMount]_vars

\* every awaited call of syncHealthLogs eventually returns: the probe, the
\* session lookup, the SELECT, the insert and the UPDATE each resolve or reject,
\* and the continuation of the call then runs
AwaitsReturn ==
  \A c \in Callers :
    /\ WF_vars(CheckConnectivity(c))
    /\ WF_vars(GetSupabaseUser(c))
    /\ WF_vars(GetUnsynced(c))
    /\ WF_vars(Upload(c))
    /\ WF_vars(Mark(c))

SpecLive == InitMount /\ [][NextMount]_vars /\ AwaitsReturn

\* the engine over a store that holds up to MaxId unsynced records of user 1,
\* each written by createHealthLog under a key the user had at the time
StoredCiphertext(i, k, date) ==
  encrypt(ToJson([id |-> <<"health_log", i>>, title |-> "Flu", date |-> date]), k).encryptedData

InitCipher ==
  /\ key \in 1..NumKeys
  /\ \E n \in 0..MaxId :
       /\ \E k \in [1..n -> 1..key], date \in [1..n -> {1, MaxDate}] :
            health_logs = {[id |-> i, user_id |-> 1,
                            encrypted_data |-> StoredCiphertext(i, k[i], date[i]),
                            created_at |-> 1, updated_at |-> 1,
                            synced_at |-> NULL, cloud_id |-> NULL] : i \in 1..n}
       /\ nextId = n + 1
  /\ now = 1
  /\ remote = {}
  /\ isSyncing = FALSE
  /\ deviceId = NULL
  /\ sync = [c \in Callers |-> IdleCall]
  /\ last = NoCall
  /\ retry = IdleRetry
  /\ stats = IdleStats
  /\ svc = NoServiceCall
  /\ db = runMigrations([NewDatabase EXCEPT !.open = TRUE]).file
  /\ vault = EmptyVault

NextCipher ==
  \/ StoreNewUserKey
  \/ Mount
  \/ \E c \in Callers, u \in Users : SyncCall(c, u)
  \/ \E c \in Callers : CheckConnectivity(c)
  \/ \E c \in Callers : GetSupabaseUser(c)
  \/ \E c \in Callers : GetUnsynced(c)
  \/ \E c \in Callers : Upload(c)
  \/ \E c \in Callers : Mark(c)

SpecCipher == InitCipher /\ [][NextCipher]_vars

\* getSyncStats while the UI creates and deletes records and a sync call marks
\* them, over a store that holds up to MaxId unsynced records of user 1
InitStatsRace ==
  /\ \E k \in 0..MaxId :
       /\ health_logs = {[id |-> i, user_id |-> 1, encrypted_data |-> 1,
                          created_at |-> 1, updated_at |-> 1,
                          synced_at |-> NULL, cloud_id |-> NULL] : i \in 1..k}
       /\ nextId = k + 1
  /\ now = 1
  /\ remote = {}
  /\ isSyncing = FALSE
  /\ deviceId = 1
  /\ sync = [c \in Callers |-> IdleCall]
  /\ last = NoCall
  /\ retry = IdleRetry
  /\ stats = IdleStats
  /\ key = 1
  /\ svc = NoServiceCall
  /\ db = runMigrations([NewDatabase EXCEPT !.open = TRUE]).file
  /\ vault = EmptyVault

NextStatsRace ==
  \/ \E u \in Users : GetSyncStats(u)
  \/ StatsReadAll
  \/ StatsReadUnsynced
  \/ \E u \in Users, p \in Payloads : CreateHealthLog(u, p)
  \/ \E id \in 1..MaxId : DeleteHealthLog(id)
  \/ \E c \in Callers, u \in Users : SyncCall(c, u)
  \/ \E c \in Callers : CheckConnectivity(c)
  \/ \E c \in Callers : GetSupabaseUser(c)
  \/ \E c \in Callers : GetUnsynced(c)
  \/ \E c \in Callers : Upload(c)
  \/ \E c \in Callers : Mark(c)

SpecStatsRace == InitStatsRace /\ [][NextStatsRace]_vars

\* the outcome of the awaited call a step of syncHealthLogs continued from
Succeeded(c) ==
  LET log == IF sync'[c].pc = "idle" THEN last'.log ELSE sync'[c].log IN
  log[Len(log)].ok

\* records a call may still upload: the unsynced rows of the local table, the
\* records of a snapshot the loop has not reached, and the rows not yet created
Outstanding ==
  Cardinality({r.id : r \in {r \in health_logs : r.synced_at = NULL}}
              \cup UNION {{sync[c].unsyncedLogs[k].id :
                             k \in (sync[c].idx + 1)..Len(sync[c].unsyncedLogs)} :
                          c \in Callers})
  + (MaxId + 1 - nextId)

\* markHealthLogAsSynced in a world where the remote table never fills up:
\* the UPDATE fails only while the remote table (bounded by MaxCloud here) can
\* take one more copy of every outstanding record
MarkWithRoom(c) ==
  /\ Mark(c)
  /\ Succeeded(c) \/ Cardinality(remote) + Outstanding <= MaxCloud

\* records are created and deleted while sync calls run, over a store that
\* holds up to MaxId unsynced records of user 1
NextSyncAll ==
  \/ \E u \in Users, p \in Payloads : CreateHealthLog(u, p)
  \/ \E id \in 1..MaxId : DeleteHealthLog(id)
  \/ \E c \in Callers, u \in Users : SyncCall(c, u)
  \/ \E c \in Callers : CheckConnectivity(c)
  \/ \E c \in Callers : GetSupabaseUser(c)
  \/ \E c \in Callers : GetUnsynced(c)
  \/ \E c \in Callers : Upload(c)
  \/ \E c \in Callers : MarkWithRoom(c)

\* every awaited call returns, syncHealthLogs is called again and again, and
\* the probe, the session lookup, the SELECT, the insert and the UPDATE each
\* succeed again and again when they are tried again and again
EventuallySucceeds ==
  /\ WF_vars(\E c \in Callers, u \in Users : SyncCall(c, u))
  /\ \A c \in Callers :
       /\ WF_vars(CheckConnectivity(c))
       /\ WF_vars(GetSupabaseUser(c))
       /\ WF_vars(GetUnsynced(c))
       /\ WF_vars(Upload(c))
       /\ WF_vars(MarkWithRoom(c))
       /\ SF_vars(CheckConnectivity(c) /\ Succeeded(c))
       /\ SF_vars(GetSupabaseUser(c) /\ Succeeded(c))
       /\ SF_vars(GetUnsynced(c) /\ Succeeded(c))
       /\ SF_vars(Upload(c) /\ Succeeded(c))
       /\ SF_vars(MarkWithRoom(c) /\ Succeeded(c))

SpecSyncAll == InitStatsRace /\ [][NextSyncAll]_vars /\ EventuallySucceeds

\* records are edited and deleted through HealthLogService while the user's
\* key changes, over a store that holds up to MaxId records of user 1
NextEdit ==
  \/ \E id \in 1..MaxRows, data \in Patches : ServiceUpdateHealthLog(id, data)
  \/ \E id \in 1..MaxRows : ServiceDeleteHealthLog(id)
  \/ StoreNewUserKey

SpecEdit == InitCipher /\ [][NextEdit]_vars

\* the schema of the store: DatabaseService.initialize, close and clearAllData
\* around the statements on health_logs
DatabaseCallEnds(op, file, error) ==
  db' = [file EXCEPT !.call = [op |-> op,
                               kind |-> IF error = <<>> THEN "ok" ELSE "error",
                               error |-> error]]

\* initialize(): the handle is assigned before the migrations run
DatabaseInitialize ==
  LET done == runMigrations([db EXCEPT !.open = TRUE])
  IN /\ DatabaseCallEnds("initialize", done.file,
                         IF done.error = <<>> THEN <<>>
                         ELSE <<"Failed to initialize database: ">> \o done.error)
     /\ UNCHANGED <<syncVars, retry, stats, key, svc, vault>>

\* close(): nothing happens without a handle
DatabaseClose ==
  /\ DatabaseCallEnds("close", [db EXCEPT !.open = FALSE], <<>>)
  /\ UNCHANGED <<syncVars, retry, stats, key, svc, vault>>

\* clearAllData(): DELETE FROM health_logs, users and migrations
ClearAllData ==
  /\ db.open
  /\ health_logs' = {}
  /\ last' = NoCall
  /\ DatabaseCallEnds("clearAllData", [db EXCEPT !.migrations = {}], <<>>)
  /\ UNCHANGED <<nextId, now, remote, isSyncing, deviceId, sync, retry, stats, key, svc, vault>>

\* a statement on health_logs through an open handle
HasHealthLogs == db.open /\ "health_logs" \in db.objects

DatabaseCreateHealthLog(u, p) == HasHealthLogs /\ CreateHealthLog(u, p)

DatabaseUpdateHealthLog(id, p) == HasHealthLogs /\ UpdateHealthLog(id, p)

DatabaseDeleteHealthLog(id) == HasHealthLogs /\ DeleteHealthLog(id)

\* if (!this.db) throw new Error('Database not initialized')
DatabaseNotInitialized(op) ==
  /\ ~db.open
  /\ DatabaseCallEnds(op, db, <<"Database not initialized">>)
  /\ UNCHANGED <<syncVars, retry, stats, key, svc, vault>>

InitSchema ==
  /\ health_logs = {}
  /\ nextId = 1
  /\ now = 1
  /\ remote = {}
  /\ isSyncing = FALSE
  /\ deviceId = NULL
  /\ sync = [c \in Callers |-> IdleCall]
  /\ last = NoCall
  /\ retry = IdleRetry
  /\ stats = IdleStats
  /\ key = 1
  /\ svc = NoServiceCall
  /\ db = NewDatabase
  /\ vault = EmptyVault

NextSchema ==
  \/ DatabaseInitialize
  \/ DatabaseClose
  \/ ClearAllData
  \/ \E u \in Users, p \in Payloads : DatabaseCreateHealthLog(u, p)
  \/ \E id \in 1..MaxId, p \in Payloads : DatabaseUpdateHealthLog(id, p)
  \/ \E id \in 1..MaxId : DatabaseDeleteHealthLog(id)
  \/ \E op \in {"createHealthLog", "updateHealthLog", "deleteHealthLog", "clearAllData"} :
       DatabaseNotInitialized(op)
  \/ Tick

SpecSchema == InitSchema /\ [][NextSchema]_vars

\* the key vault: the calls of KeyManager, one after the other
NextVault ==
  \/ \E userId \in UserIds : GenerateAndStoreUserKey(userId)
  \/ \E userId \in UserIds : GetUserKey(userId)
  \/ \E userId \in UserIds : RemoveUserKey(userId)
  \/ \E userId \in UserIds : RotateUserKey(userId)

SpecVault == Init /\ [][NextVault]_vars


\* ------------------------------------------------------------ properties
InFlight == {c \in Callers : sync[c].pc # "idle"}

Events(log, op) == SelectSeq(log, LAMBDA e : e.op = op)

Ids(logs) == [i \in 1..Len(logs) |-> logs[i].id]

AlreadyInProgress == <<"Sync already in progress">>
NotInitialized == <<"Sync service not initialized">>
Offline == <<"Sync failed: ", "No internet connection available">>
NotAuthenticated == <<"Sync failed: ", "User not authenticated with Supabase">>

\* C1: at most one syncHealthLogs call is in flight at any time, and a call
\* rejected with 'Sync already in progress' is rejected while an earlier call
\* is unresolved, has contacted neither store, and leaves the earlier call,
\* the flag, the local table and the remote table as they were.
C1_MutualExclusion ==
  /\ [](Cardinality(InFlight) <= 1)
  /\ [][(last'.kind = "error" /\ last'.error = AlreadyInProgress) =>
          /\ InFlight # {}
          /\ last'.caller \notin InFlight
          /\ last'.log = <<>>
          /\ UNCHANGED <<health_logs, nextId, now, remote, isSyncing, deviceId, sync>>]_vars

C1_Witness ==
  /\ last.kind = "error" /\ last.error = AlreadyInProgress
  /\ \E c \in Callers : sync[c].pc = "getUnsynced"

\* C2: isSyncing is true exactly while a call that passed the two guards is
\* unresolved: every way such a call ends clears it, and a call rejected by a
\* guard does not touch it.
C2_FlagReleased == isSyncing <=> (InFlight # {})

C2_Witness ==
  /\ last.kind = "error"
  /\ Len(last.error) = 3 /\ last.error[2] = "Failed to get unsynced health logs: "
  /\ ~isSyncing

\* C3: a call that fetched a non-empty snapshot returns a SyncResult, never an
\* error, and by then it has attempted the upload of every record of the
\* snapshot exactly once, in snapshot order, whatever the earlier outcomes.
C3_FailureIsolation ==
  /\ last.kind = "error" => last.unsyncedLogs = <<>> /\ Events(last.log, "insert") = <<>>
  /\ last.kind = "result" =>
       LET ins == Events(last.log, "insert") IN
       [i \in 1..Len(ins) |-> ins[i].localId] = Ids(last.unsyncedLogs)

C3_Witness ==
  /\ last.kind = "result"
  /\ Len(last.unsyncedLogs) = 2
  /\ LET ins == Events(last.log, "insert") IN
     Len(ins) = 2 /\ ~ins[1].ok /\ ins[2].ok

\* C4: when a call returns, markHealthLogAsSynced has been called exactly for
\* the records whose upload succeeded, in order, each with the id its own
\* upload returned; a record whose upload failed is still unsynced locally
\* (synced_at and cloud_id NULL) and appears exactly once in errors.
C4_OnlyUploadedMarked ==
  last.kind = "result" =>
    LET ins == Events(last.log, "insert")
        okIns == SelectSeq(ins, LAMBDA e : e.ok)
        marks == Events(last.log, "mark")
    IN
    /\ Len(marks) = Len(okIns)
    /\ \A i \in 1..Len(marks) :
         marks[i].localId = okIns[i].localId /\ marks[i].cloudId = okIns[i].cloudId
    /\ \A i \in 1..Len(ins) : ~ins[i].ok =>
         /\ \A r \in health_logs : r.id = ins[i].localId =>
              r.synced_at = NULL /\ r.cloud_id = NULL
         /\ Cardinality({k \in 1..Len(last.result.errors) :
                           last.result.errors[k].localId = ins[i].localId}) = 1

C4_Witness ==
  /\ last.kind = "result"
  /\ last.result.syncedCount = 1 /\ last.result.failedCount = 1
  /\ Len(Events(last.log, "mark")) = 1
  /\ \E r \in health_logs : r.synced_at = NULL
  /\ \E r \in health_logs : r.synced_at # NULL

\* C5: every returned SyncResult has success = (syncedCount > 0 \/ failedCount = 0);
\* success is false exactly when the snapshot was non-empty, nothing was
\* synced and something failed.
C5_SuccessFlag ==
  last.kind = "result" =>
    /\ last.result.success = (last.result.syncedCount > 0 \/ last.result.failedCount = 0)
    /\ (~last.result.success) <=>
         (/\ Len(last.unsyncedLogs) > 0
          /\ last.result.syncedCount = 0
          /\ last.result.failedCount > 0)

C5_Witness ==
  /\ last.kind = "result"
  /\ ~last.result.success
  /\ last.result.failedCount = 2

\* C6: a failed probe or an unresolved remote user is the last thing the call
\* does; a call that ends uninitialized, already-syncing, offline or
\* unauthenticated ends with an error, has fetched no snapshot, issued no
\* insert and no markHealthLogAsSynced, and no step of a call up to and
\* including the one that raises such an error changes the local or the
\* remote table.
PreconditionFailed(log) ==
  \E i \in 1..Len(log) : log[i].op \in {"probe", "getUser"} /\ ~log[i].ok

C6_PreconditionsAbort ==
  /\ [](/\ \A c \in Callers : ~PreconditionFailed(sync[c].log)
        /\ (PreconditionFailed(last.log)
             \/ last.error \in {AlreadyInProgress, NotInitialized, Offline, NotAuthenticated}) =>
             /\ last.kind = "error"
             /\ last.error \in {AlreadyInProgress, NotInitialized, Offline, NotAuthenticated}
             /\ last.unsyncedLogs = <<>>
             /\ Events(last.log, "insert") = <<>>
             /\ Events(last.log, "mark") = <<>>)
  /\ [][(last'.kind = "error"
          /\ last'.error \in {AlreadyInProgress, NotInitialized, Offline, NotAuthenticated}) =>
          UNCHANGED <<health_logs, nextId, remote>>]_vars
  /\ [][\A c \in Callers :
          (sync'[c] # sync[c] /\ sync[c].pc \in {"idle", "checkConnectivity", "getSupabaseUser"}) =>
            UNCHANGED <<health_logs, nextId, remote>>]_vars

C6_Witness ==
  /\ last.kind = "error" /\ last.error = NotAuthenticated
  /\ \E r \in health_logs : r.synced_at = NULL

\* C7: no remote row exists for a record that is still unsynced locally
\* (outside the moment between a record's upload and its markHealthLogAsSynced),
\* and no local record has two remote rows.
C7_PushedAtMostOnce ==
  /\ \A r \in health_logs :
       (/\ r.synced_at = NULL
        /\ ~\E c \in Callers :
              sync[c].pc = "mark" /\ sync[c].unsyncedLogs[sync[c].idx].id = r.id) =>
         \A x \in remote : x.src # r.id
  /\ \A x, y \in remote : x.src = y.src => x = y

\* C8: every row of the local table has synced_at and cloud_id both NULL or
\* both set.
C8_MarkerPaired ==
  \A r \in health_logs : (r.synced_at = NULL) <=> (r.cloud_id = NULL)

C8_Witness ==
  \E r \in health_logs :
    r.synced_at # NULL /\ r.cloud_id # NULL /\ r.updated_at > r.synced_at

\* C9: once a row is synced, every step leaves its synced_at and cloud_id as
\* they are for as long as the row exists, and no step inserts a remote row
\* for it.
C9_MarkerSetOnce ==
  [][/\ \A r \in health_logs : \A q \in health_logs' :
          (r.synced_at # NULL /\ q.id = r.id) =>
            q.synced_at = r.synced_at /\ q.cloud_id = r.cloud_id
     /\ \A x \in remote' \ remote : \A r \in health_logs :
          r.id = x.src => r.synced_at = NULL]_vars

C9_Witness ==
  /\ last.kind = "result"
  /\ Len(last.unsyncedLogs) = 1
  /\ last.result.syncedCount = 1
  /\ \E r \in health_logs :
       r.synced_at # NULL /\ r.id # last.unsyncedLogs[1].id

\* C10: a step that changes a row's encrypted_data or updated_at changes
\* nothing else of that row and no other row; a synced row stays out of
\* getUnsyncedHealthLogs after it, and no remote row of a synced record is
\* newer than the one it was marked with.
C10_EditKeepsMarker ==
  /\ [][\A r \in health_logs : \A q \in health_logs' :
          (q.id = r.id /\ (q.encrypted_data # r.encrypted_data \/ q.updated_at # r.updated_at)) =>
            /\ q = [r EXCEPT !.encrypted_data = q.encrypted_data, !.updated_at = q.updated_at]
            /\ health_logs' \ {q} = health_logs \ {r}
            /\ r.synced_at # NULL =>
                 \A logs \in getUnsyncedHealthLogs(health_logs', q.user_id) :
                   \A i \in 1..Len(logs) : logs[i].id # q.id]_vars
  /\ [](\A r \in health_logs : r.synced_at # NULL =>
          \A x \in remote : x.src = r.id => x.id <= r.cloud_id)

C10_Witness ==
  \E r \in health_logs : \E x \in remote :
    /\ r.synced_at # NULL
    /\ x.id = r.cloud_id
    /\ x.encrypted_data # r.encrypted_data

\* C11: a call that reads the backlog of its user while that backlog is empty
\* settles in that very step; unless the read itself raises, it returns
\* {success: true, syncedCount: 0, failedCount: 0, errors: []}, has issued no
\* insert and no markHealthLogAsSynced, and the step changes neither table, so
\* the backlog is still empty and the next call gives the same result.
Backlog(userId) == {r \in health_logs : r.user_id = userId /\ r.synced_at = NULL}

FetchFailed == <<"Sync failed: ", "Failed to get unsynced health logs: ", "Database connection failed">>

C11_EmptyBacklog ==
  /\ [][\A c \in Callers :
          (sync[c].pc = "getUnsynced" /\ sync'[c] # sync[c] /\ Backlog(sync[c].userId) = {}) =>
            /\ last'.caller = c
            /\ last'.kind = "error" => last'.error = FetchFailed
            /\ last'.kind # "error" =>
                 /\ last'.kind = "result"
                 /\ last'.result = [success |-> TRUE, syncedCount |-> 0,
                                    failedCount |-> 0, errors |-> <<>>]
            /\ Events(last'.log, "insert") = <<>>
            /\ Events(last'.log, "mark") = <<>>
            /\ UNCHANGED <<health_logs, nextId, remote>>]_vars
  /\ []((last.kind = "result" /\ last.unsyncedLogs = <<>>) =>
          /\ last.result = [success |-> TRUE, syncedCount |-> 0,
                            failedCount |-> 0, errors |-> <<>>]
          /\ Backlog(last.userId) = {})

\* the second call after a sync that emptied the backlog
C11_Witness ==
  /\ last.kind = "result" /\ last.unsyncedLogs = <<>>
  /\ last.result = [success |-> TRUE, syncedCount |-> 0, failedCount |-> 0, errors |-> <<>>]
  /\ \E r \in health_logs : r.synced_at # NULL
  /\ remote # {}

\* C12: in every call, in flight or settled, the snapshot is in ascending
\* created_at order; the inserts and marks it has issued so far are those of
\* the records 1, 2, .. of the snapshot in that order, the mark of a record
\* directly after its successful insert and before the insert of the next
\* record; and errors lists the failed records in the order they were processed.
Sequential(logs, log, errors) ==
  LET ev == SelectSeq(log, LAMBDA e : e.op \in {"insert", "mark"})
      ins == Events(log, "insert")
      failed == SelectSeq(ev, LAMBDA e : ~e.ok)
  IN
  /\ \A i, j \in 1..Len(logs) : i < j => logs[i].created_at <= logs[j].created_at
  /\ Len(ins) <= Len(logs)
  /\ \A k \in 1..Len(ins) : ins[k].localId = logs[k].id
  /\ \A i \in 1..Len(ev) :
       /\ ev[i].op = "mark" =>
            i > 1 /\ ev[i-1].op = "insert" /\ ev[i-1].ok /\ ev[i-1].localId = ev[i].localId
       /\ (ev[i].op = "insert" /\ i > 1) =>
            ev[i-1].op = "mark" \/ (ev[i-1].op = "insert" /\ ~ev[i-1].ok)
  /\ Len(errors) = Len(failed)
  /\ \A k \in 1..Len(errors) : errors[k].localId = failed[k].localId

C12_SequentialOldestFirst ==
  /\ Sequential(last.unsyncedLogs, last.log, last.result.errors)
  /\ \A c \in Callers :
       /\ Sequential(sync[c].unsyncedLogs, sync[c].log, sync[c].result.errors)
       /\ sync[c].pc = "mark" <=>
            (sync[c].log # <<>> /\ LET e == sync[c].log[Len(sync[c].log)] IN
                                    e.op = "insert" /\ e.ok)

\* two records created at different times, the older one failing at its mark
\* and the newer one at its insert
C12_Witness ==
  /\ last.kind = "result"
  /\ Len(last.unsyncedLogs) = 2
  /\ last.unsyncedLogs[1].created_at < last.unsyncedLogs[2].created_at
  /\ Len(last.result.errors) = 2
  /\ last.result.errors[1].localId = last.unsyncedLogs[1].id
  /\ last.result.errors[1].error[1] = "Failed to mark health log as synced: "
  /\ last.result.errors[2].localId = last.unsyncedLogs[2].id

\* C13: retrySyncWithBackoff(owner, n) with n >= 1 issues one syncHealthLogs
\* call per attempt and only after every earlier attempt raised; it ends
\* either at the first attempt k <= n that does not raise, returning that
\* attempt's result after exactly k calls, or after n calls that all raised,
\* raising the error of the n-th call as that call raised it.
CallOutstanding == (\E c \in Callers : sync[c].pc # "idle") \/ last.kind # "none"

C13_RetryCalls ==
  /\ CallOutstanding => retry.pc = "attempt"
  /\ retry.pc = "attempt" =>
       retry.raised = retry.attempt - 1 /\ retry.attempt <= retry.maxRetries
  /\ retry.pc = "wait" =>
       retry.raised = retry.attempt /\ retry.attempt < retry.maxRetries
  /\ (retry.pc = "done" /\ retry.maxRetries >= 1) =>
       /\ retry.kind \in {"result", "error"}
       /\ retry.kind = "result" =>
            /\ retry.attempt = retry.raised + 1
            /\ retry.attempt <= retry.maxRetries
            /\ retry.final.kind = "result"
            /\ retry.result = retry.final.result
       /\ retry.kind = "error" =>
            /\ retry.attempt = retry.maxRetries
            /\ retry.raised = retry.maxRetries
            /\ retry.final.kind = "error"
            /\ retry.error = retry.final.error

\* three attempts that all raised, the last one because the user was not
\* authenticated with the remote store
C13_Witness ==
  /\ retry.pc = "done" /\ retry.kind = "error"
  /\ retry.maxRetries = 3 /\ retry.raised = 3
  /\ retry.error = NotAuthenticated

\* C14: the i-th delay of a run is 2^(i-1) seconds; a delay follows every
\* failed attempt but the maxRetries-th and never follows a successful one,
\* so a run that fails twice and then succeeds has made 3 attempts and
\* waited 3 seconds in total.
RECURSIVE SumSeq(_)
SumSeq(q) == IF q = <<>> THEN 0 ELSE q[1] + SumSeq(Tail(q))

C14_BackoffSchedule ==
  /\ \A i \in 1..Len(retry.waits) : retry.waits[i] = 2^(i - 1) * 1000
  /\ retry.pc = "attempt" => Len(retry.waits) = retry.attempt - 1
  /\ retry.pc = "wait" => Len(retry.waits) = retry.attempt
  /\ (retry.pc = "done" /\ retry.kind = "result") => Len(retry.waits) = retry.raised
  /\ (retry.pc = "done" /\ retry.kind = "error" /\ retry.maxRetries >= 1) =>
       Len(retry.waits) = retry.maxRetries - 1
  /\ (retry.pc = "done" /\ retry.kind = "result" /\ retry.raised = 2) =>
       retry.attempt = 3 /\ SumSeq(retry.waits) = 3000

\* fail, fail, succeed
C14_Witness ==
  /\ retry.pc = "done" /\ retry.kind = "result"
  /\ retry.raised = 2 /\ retry.attempt = 3
  /\ retry.waits = <<1000, 2000>>
  /\ retry.result.syncedCount = 2

\* C15: getSyncStats returns syncedLogs = totalLogs - unsyncedLogs and
\* syncPercentage = round(100 * syncedLogs / totalLogs), a half rounding up
\* as Math.round does, and 100 when totalLogs = 0, for all counts it reads.
RoundedRatio(num, den) == (2 * num + den) \div (2 * den)

C15_SyncPercentage ==
  (stats.pc = "done" /\ stats.kind = "result") =>
    LET r == stats.result IN
    /\ r.syncedLogs = r.totalLogs - r.unsyncedLogs
    /\ r.syncPercentage = IF r.totalLogs = 0 THEN 100
                           ELSE RoundedRatio(100 * r.syncedLogs, r.totalLogs)

\* C19: a createHealthLog call that raises, whether for a draft that fails
\* validation after sanitising, for a failed encryption or for a failed
\* INSERT, leaves the table and its id sequence as they were; a step that
\* changes the table is a createHealthLog call that returns, for a draft
\* that passes validation and with a usable key, and it adds exactly one row,
\* of that user, that decrypts under that key to the record returned.
C19_NoPartialWrite ==
  [][/\ (svc' # svc /\ svc'.op = "create" /\ svc'.kind = "error") =>
          UNCHANGED <<health_logs, nextId>>
     /\ health_logs' # health_logs =>
          /\ svc'.op = "create" /\ svc'.kind = "result"
          /\ validateHealthLogData(sanitizeHealthLogData(svc'.data)) = <<>>
          /\ svc'.key # NULL
          /\ \E r \in health_logs' :
               /\ r \notin health_logs
               /\ health_logs' = health_logs \cup {r}
               /\ r.id = nextId /\ nextId' = nextId + 1
               /\ r.user_id = svc'.userId
               /\ r.encrypted_data.key = svc'.key
               /\ r.encrypted_data.data = <<"json", svc'.value[1]>>]_vars

\* a draft with a blank title and a date in the future is refused while the
\* table holds a row
C19_Witness ==
  /\ svc.op = "create" /\ svc.kind = "error"
  /\ svc.error = <<"Validation failed: ", "Title is required and must be a string",
                   "Date cannot be in the future">>
  /\ svc.data.title = " "
  /\ Cardinality(health_logs) = 1

\* C20: getAllHealthLogs(owner) raises only when the read of the table
\* raises; otherwise it has read exactly the owner's rows and returns, once
\* each, the records of those of them that were encrypted under the bound
\* key, in descending order of their date, whatever other rows were read.
C20_GetAllSkipsUndecryptable ==
  /\ [](svc.op = "getAll" =>
          /\ svc.kind \in {"result", "error"}
          /\ svc.kind = "error" =>
               svc.error = <<"Failed to retrieve health logs: ",
                             "Failed to get health logs: ", "database is locked">>
          /\ svc.kind = "result" =>
               LET rows == svc.encryptedLogs
                   good == {i \in 1..Len(rows) :
                              svc.key # NULL /\ rows[i].encrypted_data.key = svc.key}
                   value == svc.value
               IN
               /\ \A i \in 1..Len(rows) : rows[i].user_id = svc.userId
               /\ Len(value) = Cardinality(good)
               /\ {value[j] : j \in 1..Len(value)} =
                    {rows[i].encrypted_data.data[2] : i \in good}
               /\ \A i, j \in 1..Len(value) : i < j => value[i].date >= value[j].date)
  /\ [][(svc' # svc /\ svc'.op = "getAll" /\ svc'.kind = "result") =>
          {svc'.encryptedLogs[i] : i \in 1..Len(svc'.encryptedLogs)} =
            {r \in health_logs : r.user_id = svc'.userId}]_vars

\* three rows are read, the second is under an earlier key; the two others
\* come back, the later date first, which is not the order they were read in
C20_Witness ==
  /\ svc.op = "getAll" /\ svc.kind = "result"
  /\ Len(svc.encryptedLogs) = 3
  /\ svc.encryptedLogs[2].encrypted_data.key # svc.key
  /\ Len(svc.value) = 2
  /\ svc.value[1].date > svc.value[2].date
  /\ svc.value[1] = svc.encryptedLogs[3].encrypted_data.data[2]
  /\ svc.value[2] = svc.encryptedLogs[1].encrypted_data.data[2]


\* C17: the device identifier is process-stable: every upload of the instance
\* carries the same device id, also after further initialize() calls and for
\* all records of a batch during which initialize() is called
C17_DeviceIdStable ==
  \A x, y \in remote : x.device_id = y.device_id

C18_SyncEnds ==
  /\ \A c \in Callers :
       (sync[c].pc # "idle") ~>
         (/\ sync[c].pc = "idle"
          /\ last.caller = c
          /\ last.kind \in {"error", "result"}
          /\ ~isSyncing)
  /\ isSyncing ~> ~isSyncing

\* a call has returned a partly failed SyncResult and the flag is clear
C18_Witness ==
  /\ last.kind = "result"
  /\ last.result.syncedCount > 0
  /\ last.result.failedCount > 0
  /\ ~isSyncing
  /\ \A c \in Callers : sync[c].pc = "idle"

\* C25: whenever retrySyncWithBackoff returns a SyncResult instead of raising,
\* that result has success = true (an attempt whose result has success = false
\* counts as failed and is retried while attempts remain)
C25_ReturnsOnlySuccess ==
  (retry.pc = "done" /\ retry.kind = "result") => retry.result.success

\* C26: accounting of every SyncResult syncHealthLogs returns: syncedCount +
\* failedCount is the number of records of the unsynced snapshot the call
\* fetched, errors has failedCount entries, and the localIds of errors are
\* pairwise distinct ids of records of that snapshot
C26_Accounting ==
  last.kind = "result" =>
    LET result == last.result
        n == Len(result.errors) IN
    /\ result.syncedCount + result.failedCount = Len(last.unsyncedLogs)
    /\ n = result.failedCount
    /\ \A i \in 1..n :
         \E k \in 1..Len(last.unsyncedLogs) :
           last.unsyncedLogs[k].id = result.errors[i].localId
    /\ \A i, j \in 1..n :
         i # j => result.errors[i].localId # result.errors[j].localId

\* a snapshot of two records, both failed, one at the insert and one at the mark
C26_Witness ==
  /\ last.kind = "result"
  /\ Len(last.unsyncedLogs) = 2
  /\ last.result.failedCount = 2
  /\ Len(last.result.errors) = 2
  /\ \E e \in 1..Len(last.log) : last.log[e].op = "mark" /\ ~last.log[e].ok
  /\ \E e \in 1..Len(last.log) : last.log[e].op = "insert" /\ ~last.log[e].ok

\* C27: when a sync call marks a record synced, the ciphertext it uploaded for
\* that record (the remote row it is paired with) equals the record's payload
\* in the local store at that moment, also when updateHealthLog ran on the
\* record after the snapshot was read
C27_MarkedCopyIsCurrent ==
  [][\A r \in health_logs' :
       (r.synced_at # NULL /\ \E q \in health_logs : q.id = r.id /\ q.synced_at = NULL) =>
         \E x \in remote' : x.id = r.cloud_id /\ x.encrypted_data = r.encrypted_data]_vars

\* C28: every record a sync call counts in syncedCount was, at that moment,
\* an existing local row that markHealthLogAsSynced took from unsynced to
\* synced; a record deleted while the call was in flight is not counted
C28_CountedWereMarked ==
  [][\A c \in Callers :
       LET s == sync[c]
           counted == IF sync'[c].pc = "idle" THEN last'.result.syncedCount
                                              ELSE sync'[c].result.syncedCount IN
       (s.pc = "mark" /\ sync'[c] # s /\ counted = s.result.syncedCount + 1) =>
         \E r \in health_logs :
           /\ r.id = s.unsyncedLogs[s.idx].id
           /\ r.synced_at = NULL
           /\ \E q \in health_logs' : q.id = r.id /\ q.synced_at # NULL]_vars

\* C30: getSyncStats returns syncedLogs >= 0, unsyncedLogs <= totalLogs and
\* 0 <= syncPercentage <= 100, also when records are created, deleted or
\* marked synced between its two reads of the store
C30_StatsInRange ==
  (stats.pc = "done" /\ stats.kind = "result") =>
    /\ stats.result.syncedLogs >= 0
    /\ stats.result.unsyncedLogs <= stats.result.totalLogs
    /\ stats.result.syncPercentage >= 0
    /\ stats.result.syncPercentage <= 100

\* the records of the snapshot a call holds
Snapshot(c) == {sync[c].unsyncedLogs[k] : k \in 1..Len(sync[c].unsyncedLogs)}

\* every unsynced record is eventually marked synced or deleted
EventuallySynced ==
  \A id \in 1..MaxId :
    (\E r \in health_logs : r.id = id /\ r.synced_at = NULL) ~>
      ~(\E r \in health_logs : r.id = id /\ r.synced_at = NULL)

DatabaseRaised == svc'.error # <<>> /\ svc'.error[Len(svc'.error)] = "database is locked"

\* C21: updateHealthLog(localId, patch) rejects a patch whose id is missing,
\* empty or different from the domain id of the stored record and leaves the
\* row as it was; after a successful update the stored record has the domain
\* id it was created with
C21_PatchIdMustMatch ==
  [][(svc' # svc /\ svc'.op = "update") =>
       LET existing == getHealthLog(health_logs, svc'.healthLogId, svc'.key) IN
       /\ (IdMissing(svc'.data.id)
            \/ (existing.kind = "value" /\ svc'.data.id # existing.value[1].id)) =>
              svc'.kind = "error" /\ health_logs' = health_logs
       /\ svc'.kind = "result" =>
            /\ existing.kind = "value"
            /\ getHealthLog(health_logs', svc'.healthLogId, svc'.key).value[1].id
                 = existing.value[1].id]_vars

\* C22: deleteHealthLog(localId), when the database does not raise, removes
\* exactly the row at localId whatever its payload, and fails only when there
\* is no such row, with 'Health log not found' and the table unchanged
C22_DeleteFailsOnlyWhenAbsent ==
  [][(svc' # svc /\ svc'.op = "delete" /\ ~DatabaseRaised) =>
       IF \E r \in health_logs : r.id = svc'.healthLogId
         THEN /\ svc'.kind = "result"
              /\ health_logs' = {r \in health_logs : r.id # svc'.healthLogId}
         ELSE /\ svc'.kind = "error"
              /\ svc'.error = <<"Failed to delete health log: ", "Health log not found">>
              /\ health_logs' = health_logs]_vars

\* C23: every initialize() of the store succeeds, whatever DatabaseService
\* calls came before it, and the CREATE TABLE statements of migration 1 take
\* effect at most once on the database
C23_InitializeIdempotent ==
  /\ db.call.op = "initialize" => db.call.kind = "ok"
  /\ db.ddl <= 1

\* the rotateUserKey call that ended last: the owner's key before and after
Rotated == vault.call.op = "rotateUserKey"

KeyBefore == IF vault.call.userId = 0 THEN NULL ELSE vault.call.was[vault.call.userId]

KeyAfter == IF vault.call.userId = 0 THEN NULL ELSE vault.items[vault.call.userId]

\* setItemAsync was reached and rejected
StoreFailed == vault.call.read /\ KeyBefore # NULL /\ ~vault.call.stored

RotationSucceeded ==
  /\ vault.call.result.success
  /\ vault.call.result.oldKey = KeyBefore
  /\ vault.call.result.newKey = KeyAfter
  /\ vault.call.result.newKey # NULL

RotationFailed(items) == ~vault.call.result.success /\ vault.items = items

\* C24 as stated: rotateUserKey fails and leaves the vault alone when the owner
\* has no key; in every other case it returns the key stored before as oldKey
\* and the key stored after as newKey, unless the write of the new key
\* fails, which is reported and leaves the old key stored
C24_RotatesWheneverKeyStored ==
  Rotated =>
    /\ KeyBefore = NULL => RotationFailed(vault.call.was)
    /\ KeyBefore # NULL /\ ~StoreFailed => RotationSucceeded
    /\ StoreFailed => ~vault.call.result.success /\ KeyAfter = KeyBefore
====
